---- MODULE Spec2Model ----
(***************************************************************************)
(* NeuroDraw, the Brain.js NeuralNetwork object (the object that has       *)
(* verify and augmentInput): init, predict, verify, augmentInput.          *)
(*                                                                         *)
(* JavaScript runs one handler at a time, to completion.  verify's         *)
(* forEach is unrolled here into one step per variation so that every      *)
(* classifier answer can be chosen independently; while pc = "voting" no   *)
(* other action is enabled, so the unrolling adds no interleaving the      *)
(* program does not have.                                                  *)
(*                                                                         *)
(* Numbers.  A classifier score is an integer number of 1/ScoreUnit        *)
(* (0.1 is 1).  A confidence is an exact fraction [num, den]: predict      *)
(* returns maxProb, i.e. maxProb/ScoreUnit, and verify returns             *)
(* maxVotes / variations.length.                                           *)
(*                                                                         *)
(* Views of the program, each with its own specification over the same     *)
(* variables: Spec and SpecAnyAnswer follow the votes and results of       *)
(* predict and verify (vectors are opaque there); SpecArrays follows the   *)
(* arrays that augmentInput, predict and verify read and write, element    *)
(* by element (a pixel value is an integer number of 1/PixelUnit);         *)
(* SpecNormalizer follows App.getImageData on the drawing canvas (its      *)
(* averages are exact fractions); SpecGame follows App's game: modes,      *)
(* score, streak, the interval of the time attack and the timeouts;        *)
(* SpecStartup follows the page starting up with the NeuralNetwork of      *)
(* part_000 or with that of model.js (TensorFlow.js), and App.init         *)
(* waiting for it.                                                         *)
(***************************************************************************)
EXTENDS Integers, Sequences, FiniteSets, TLC

\* ---------------------------------------------------------------- bounds
\* The classifier's scores range over 0..MaxScore (units of 1/ScoreUnit).
MaxScore == 2
\* The callers' input vectors are 1..MaxInput (opaque, pairwise different).
MaxInput == 1
\* The vectors given to augmentInput, predict and verify have 784 values, or
\* up to MaxSlack fewer or more.
MaxSlack == 1
\* The bytes on the canvas are 0, 255 and 1..MaxByte.
MaxByte == 2
\* At most MaxPredicts predictions are handled after a mode selection and at
\* most MaxPending timeouts of a kind are scheduled at a time.
MaxPredicts == 3
MaxPending == 2

\* ------------------------------------------------------ program constants
\* config.outputSize, and the length of the array window.nn returns
outputSize == 10
\* predict's loop: for (let i = 0; i < 10; i++)
PredictScan == 10
\* verify: new Array(100).fill(0)
VoteSlots == 100
\* verify's per-variation loop: for (let i = 0; i < 100; i++)
VoteScan == 100
\* verify's winner loop: for (let i = 0; i < 100; i++)
WinnerScan == 100
\* init: while (!window.nn && attempts < 20)
MaxAttempts == 20
\* predict's placeholder: new Array(10).fill(0.1)
PlaceholderLen == 10
\* 0.1, the placeholder's score; scores are counted in units of 1/ScoreUnit
PlaceholderProb == 1
ScoreUnit == 10
\* augmentInput: const size = 28
size == 28
\* A pixel value is an integer number of 1/PixelUnit: 1 is PixelUnit, and the
\* 0.1 of the noise, Math.random() * 0.2 - 0.1, is NoiseMax.
PixelUnit == 20
NoiseMax == 2
\* App.gridSize, App.canvasSize; the 255 and the 4 bytes per pixel of
\* getImageData
gridSize == 28
canvasSize == 280
ByteMax == 255
Channels == 4

\* The classes the classifier may give a non-zero score: the two lowest and
\* the highest.  Every answer still has outputSize entries and every loop
\* still scans its whole range.
VoteClasses == {0, 1, outputSize - 1}

Inputs == 1..MaxInput

\* What reading past the end of a JavaScript array yields (undefined).
Undef == 0 - 1

ZeroArray(n) == [i \in 0..(n - 1) |-> 0]

\* The answers window.nn may give: arrays of outputSize non-negative scores.
Dists ==
    { [i \in 0..(outputSize - 1) |-> IF i \in VoteClasses THEN f[i] ELSE 0] :
        f \in [VoteClasses -> 0..MaxScore] }

\* window.nn is external code and nothing in predict or verify looks at the
\* length of what it returns.  An answer one entry short, and an answer with
\* one entry more:
Truncate(d) == [i \in 0..(outputSize - 2) |-> d[i]]
Extend(d, s) == [i \in 0..outputSize |-> IF i < outputSize THEN d[i] ELSE s]

\* The answers of a classifier built with another number of classes: the
\* answers above cut short, and answers that score only the extra class.
Malformed ==
    {Truncate(d) : d \in Dists}
    \cup {Extend(ZeroArray(outputSize), s) : s \in 0..MaxScore}

AllAnswers == Dists \cup Malformed

\* The number of entries of an answer.
Length(out) == Cardinality(DOMAIN out)

VARIABLES
    nn,           \* window.nn is defined
    isLoaded,     \* NeuralNetwork.isLoaded
    isTraining,   \* NeuralNetwork.isTraining
    activations,  \* NeuralNetwork.activations: [input, hidden, output]
    initPc,       \* where init() is: "start", "sleeping", "done"
    attempts,     \* init's local
    pc,           \* "idle"; inside verify: "voting" (the forEach), "counted"
                  \* (the winner is found); "returned"
    op,           \* the handler that runs or has returned: "predict", "verify"
    inputData,    \* the handler's argument
    variations,   \* verify's local
    idx,          \* how many variations forEach has visited
    votes,        \* verify's local
    winner,       \* verify's local
    maxVotes,     \* verify's local
    calls,        \* classifier invocations made by this call
    ballots,      \* per class, the answers of this call's forEach whose
                  \* largest score is first reached at that class
    rawAnswer,    \* the call predict made in this call: its argument and
                  \* the classifier's answer
    seen,         \* window.nn and this.isLoaded as this call reads them
    scanned,      \* the most indices a class-indexed loop of this call read
    lengths,      \* the lengths of the answers this call received
    wellFormed,   \* the function at window.nn answers with outputSize entries
    result,       \* what the handler returned
    heap,         \* the arrays of the last call on a vector, by object: the
                  \* caller's vector is object InputRef
    before,       \* the caller's vector as it was when the call was made
    ensemble,     \* the objects that call returned, or handed on
    vop,          \* that call: "augmentInput", "shift", "predict", "verify"
    offset,       \* the offset of the last shift there and back
    canvas,       \* the bitmap of App.drawCanvas
    imageData,    \* what getImageData returned for this bitmap
    gameMode,     \* App.gameMode: "free", "challenge", "time"
    score,        \* App.score
    streak,       \* App.streak
    targetDigit,  \* App.targetDigit, or Null
    timer,        \* App.timer
    timerInterval, \* App.timerInterval: "null", or the id setInterval gave,
                  \* kept as "live" (its interval runs) or "cleared"
    isGameActive, \* App.isGameActive
    intervals,    \* the number of intervals of startTimer that run
    pendingNext,  \* scheduled timeouts of handleGameLogic (1.5 s)
    pendingFree,  \* scheduled timeouts of endGame (3 s)
    predicts,     \* calls of handleGameLogic since the last mode selection
    run,          \* correct predictions in a row since the last miss or
                  \* mode selection
    rewards,      \* times points were added for the target on display
    startedBy,    \* who selected the mode: "page", "user", "timeout"
    model,        \* NeuralNetwork.model: "undefined" in part_000; in
                  \* model.js "null", "built", "loaded", "partial"
    appPc         \* App.init: "start", "polling" (in waitForModel), "ready"

vars == <<nn, isLoaded, isTraining, activations, initPc, attempts, pc, op,
          inputData, variations, idx, votes, winner, maxVotes, calls, ballots,
          rawAnswer, seen, scanned, lengths, wellFormed, result,
          heap, before, ensemble, vop, offset, canvas, imageData,
          gameMode, score, streak, targetDigit, timer, timerInterval,
          isGameActive, intervals, pendingNext, pendingFree, predicts, run,
          rewards, startedBy, model, appPc>>

\* The state seen through the calls' votes and results, and seen through the
\* arrays the calls read and write.
network == <<nn, isLoaded, isTraining, activations, initPc, attempts, pc, op,
             inputData, variations, idx, votes, winner, maxVotes, calls, ballots,
             rawAnswer, seen, scanned, lengths, wellFormed, result>>
vectors == <<heap, before, ensemble, vop, offset>>
normalizer == <<canvas, imageData>>
game == <<gameMode, score, streak, targetDigit, timer, timerInterval,
          isGameActive, intervals, pendingNext, pendingFree, predicts, run,
          rewards, startedBy>>
startup == <<model, appPc>>

object == <<isLoaded, isTraining, activations>>
locals == <<inputData, variations, idx, votes, winner, maxVotes, calls, ballots,
            rawAnswer, seen, scanned, lengths>>

\* No handler is running: JavaScript takes the next task only then.
Quiet == pc \in {"idle", "returned"}

\* ------------------------------------------------------------- helpers
Rat(n, d) == [num |-> n, den |-> d]
RatEq(a, b) == a.num * b.den = b.num * a.den

\* arr[i] in JavaScript: undefined outside the array
At(arr, i) == IF i \in DOMAIN arr THEN arr[i] ELSE Undef

\* The comparison written >= instead of >.
GtOrEq(a, b) == a # Undef /\ a >= b

\* The comparison written !(a <= b): true when a is undefined.
GtNotLe(a, b) == ~(a # Undef /\ a <= b)

\* a > b in JavaScript for a number b: false when a is undefined
Gt(a, b) == a # Undef /\ a > b

\* The lowest index at which arr has its largest entry (arr is not empty).
FirstLargest(arr) ==
    CHOOSE i \in DOMAIN arr :
        /\ \A j \in DOMAIN arr : arr[j] <= arr[i]
        /\ \A j \in DOMAIN arr : j < i => arr[j] < arr[i]

\* No handler has returned yet.
NoResult == [prediction |-> 0, confidence |-> Rat(0, 1),
             probabilities |-> ZeroArray(0), isVerified |-> FALSE]

\* The loop shared by predict and verify:
\*   let max = 0; let best = 0;
\*   for (let i = 0; i < limit; i++) if (arr[i] > max) { max = arr[i]; best = i; }
RECURSIVE ArgmaxLoop(_, _, _, _, _)
ArgmaxLoop(arr, i, limit, max, best) ==
    IF i >= limit THEN [max |-> max, best |-> best, scanned |-> i]
    ELSE IF Gt(At(arr, i), max)
         THEN ArgmaxLoop(arr, i + 1, limit, At(arr, i), i)
         ELSE ArgmaxLoop(arr, i + 1, limit, max, best)

\* predict: "Find prediction"
PredictArgmax(out) == ArgmaxLoop(out, 0, PredictScan, 0, 0)

\* verify: the loop inside forEach
VoteArgmax(out) == ArgmaxLoop(out, 0, VoteScan, 0, 0)

\* The two loops over a classifier answer, tabulated once per answer.
PredictArgmaxOf == [out \in AllAnswers |-> PredictArgmax(out)]
VoteArgmaxOf == [out \in AllAnswers |-> VoteArgmax(out)]

\* "Find winner" stopping one class early.
FindWinnerShort(v) == ArgmaxLoop(v, 0, outputSize - 1, 0, 0)

\* verify: "Find winner"
FindWinner(v) == ArgmaxLoop(v, 0, WinnerScan, 0, 0)

\* ------------------------------------------------------------- init()
\* The while loop's test, and what follows the loop.
InitLoop(a) ==
    IF ~nn /\ a < MaxAttempts
    THEN /\ initPc' = "sleeping"
         /\ UNCHANGED isLoaded
    ELSE /\ initPc' = "done"
         /\ isLoaded' = IF nn THEN TRUE ELSE isLoaded

\* DOMContentLoaded: NeuralNetwork.init() runs up to its first await.
InitStart ==
    /\ Quiet
    /\ initPc = "start"
    /\ InitLoop(attempts)
    /\ attempts' = attempts
    /\ UNCHANGED <<nn, isTraining, activations, pc, op, locals, wellFormed, result,
                   vectors, normalizer, game, startup>>

\* The 100 ms timeout of the loop body fires: attempts++, then the test again.
InitTimeout ==
    /\ Quiet
    /\ initPc = "sleeping"
    /\ InitLoop(attempts + 1)
    /\ attempts' = IF initPc' = "done" THEN 0 ELSE attempts + 1
    /\ UNCHANGED <<nn, isTraining, activations, pc, op, locals, wellFormed, result,
                   vectors, normalizer, game, startup>>

\* The environment: mnist_brain/dist/build.js runs and defines window.nn.
NnDefined ==
    /\ Quiet
    /\ ~nn
    /\ nn' = TRUE
    /\ UNCHANGED <<object, initPc, attempts, pc, op, locals, wellFormed, result,
                   vectors, normalizer, game, startup>>

\* ------------------------------------------------------------- predict
\* A vector handed to the classifier: x itself, a shift of x, its noisy copy.
Original(x) == [kind |-> "original", of |-> x, dx |-> 0, dy |-> 0]

\* What the function at window.nn may return.
Answers == IF wellFormed THEN Dists ELSE Malformed

\* predict did not call the classifier.
NoCall == [arg |-> Original(0), out |-> ZeroArray(0)]

Placeholder ==
    [prediction |-> 0, confidence |-> Rat(0, ScoreUnit),
     probabilities |-> [i \in 0..(PlaceholderLen - 1) |-> PlaceholderProb],
     isVerified |-> FALSE]

\* predict's guard: the classifier can be called
Ready == isLoaded /\ nn

\* this.activations after predict stored input, hidden and output.  hidden
\* holds 64 values Math.random() * maxProb: it is kept as their bound maxProb.
StoreActivations(x, out, maxProb) ==
    [input |-> x, hidden |-> maxProb, output |-> out]

\* What window.nn may answer to predict's call; predict's result does not
\* depend on it when the guard fails and window.nn is not called.
PredictAnswers == IF Ready THEN Answers ELSE {ZeroArray(outputSize)}

\* predict's return value with the confidence of a hard softmax, always 1.
PredictResultHard(out, am) ==
    [prediction |-> am.best, confidence |-> Rat(ScoreUnit, ScoreUnit),
     probabilities |-> out, isVerified |-> FALSE]

\* predict's return value when the classifier answered out.  The activations
\* field is the object this.activations itself (see activations); a result of
\* predict has no isVerified field, kept here as FALSE.
PredictResult(out, am) ==
    [prediction |-> am.best, confidence |-> Rat(am.max, ScoreUnit),
     probabilities |-> out, isVerified |-> FALSE]

\* predict storing the input before its guard.
predictStoresFirst(x, out) ==
    IF ~Ready
    THEN [ret |-> Placeholder, act |-> [activations EXCEPT !.input = x],
          called |-> 0, asked |-> NoCall, scanned |-> 0, lengths |-> {}]
    ELSE LET am == PredictArgmaxOf[out]
         IN  [ret |-> PredictResult(out, am),
              act |-> StoreActivations(x, out, am.max),
              called |-> 1,
              asked |-> [arg |-> Original(x), out |-> out],
              scanned |-> am.scanned, lengths |-> {Length(out)}]

\* predict(inputData) where out is what window.nn answers if it is called:
\* the returned value, this.activations afterwards, the number of calls, the
\* number of indices its loop read and the length of the answer it got.
predict(x, out) ==
    IF ~Ready
    THEN [ret |-> Placeholder, act |-> activations, called |-> 0, asked |-> NoCall,
          scanned |-> 0, lengths |-> {}]
    ELSE LET am == PredictArgmaxOf[out]
         IN  [ret |-> PredictResult(out, am),
              act |-> StoreActivations(x, out, am.max),
              called |-> 1,
              asked |-> [arg |-> Original(x), out |-> out],
              scanned |-> am.scanned, lengths |-> {Length(out)}]

\* A caller runs NeuralNetwork.predict(x).
Predict(x) ==
    /\ Quiet
    /\ \E out \in PredictAnswers :
         LET p == predict(x, out)
         IN  /\ result' = p.ret
             /\ activations' = p.act
             /\ calls' = p.called
             /\ rawAnswer' = p.asked
             /\ scanned' = p.scanned
             /\ lengths' = p.lengths
    /\ seen' = [nn |-> nn, isLoaded |-> isLoaded]
    /\ pc' = "returned"
    /\ op' = "predict"
    /\ inputData' = x
    /\ variations' = <<>>
    /\ idx' = 0
    /\ votes' = ZeroArray(0)
    /\ winner' = 0
    /\ maxVotes' = 0
    /\ ballots' = ZeroArray(outputSize)
    /\ UNCHANGED <<nn, isLoaded, isTraining, initPc, attempts, wellFormed, vectors, normalizer, game, startup>>

\* -------------------------------------------------------- augmentInput
\* The offsets with dx in the outer loop and dy in the inner loop.
ShiftOffsetsColumnMajor ==
    SelectSeq([j \in 1..9 |-> [dx |-> ((j - 1) \div 3) - 1, dy |-> ((j - 1) % 3) - 1]],
              LAMBDA o : ~(o.dx = 0 /\ o.dy = 0))

\* The offsets in the order of the two nested loops, (0,0) skipped.
ShiftOffsets ==
    SelectSeq([j \in 1..9 |-> [dx |-> ((j - 1) % 3) - 1, dy |-> ((j - 1) \div 3) - 1]],
              LAMBDA o : ~(o.dx = 0 /\ o.dy = 0))

\* augmentInput without the skip of (0,0): nine shifts.
augmentInputNoSkip(x) ==
    <<Original(x)>>
    \o [j \in 1..9 |->
          [kind |-> "shift", of |-> x, dx |-> ((j - 1) % 3) - 1, dy |-> ((j - 1) \div 3) - 1]]
    \o <<[kind |-> "noisy", of |-> x, dx |-> 0, dy |-> 0]>>

\* The variations of x: x itself, its eight shifts, its noisy copy.
augmentInput(x) ==
    <<Original(x)>>
    \o [j \in 1..Len(ShiftOffsets) |->
          [kind |-> "shift", of |-> x, dx |-> ShiftOffsets[j].dx, dy |-> ShiftOffsets[j].dy]]
    \o <<[kind |-> "noisy", of |-> x, dx |-> 0, dy |-> 0]>>

\* -------------------------------------------------------------- verify
\* verify(x) up to the forEach.
VerifyCall(x) ==
    /\ Quiet
    /\ pc' = "voting"
    /\ op' = "verify"
    /\ inputData' = x
    /\ variations' = augmentInput(x)
    /\ votes' = ZeroArray(VoteSlots)
    /\ winner' = 0
    /\ maxVotes' = 0
    /\ idx' = 0
    /\ calls' = 0
    /\ ballots' = ZeroArray(outputSize)
    /\ rawAnswer' = NoCall
    /\ seen' = [nn |-> nn, isLoaded |-> isLoaded]
    /\ scanned' = 0
    /\ lengths' = {}
    /\ result' = NoResult
    /\ UNCHANGED <<nn, object, initPc, attempts, wellFormed, vectors, normalizer, game, startup>>

\* votes[prediction]++
CastVote(v, prediction) == [v EXCEPT ![prediction] = @ + 1]

\* The larger of two counts.
Max(a, b) == IF a >= b THEN a ELSE b

\* One more answer for class c in the tally of first-largest classes, which
\* has outputSize classes.
Ballot(b, c) == IF c \in DOMAIN b THEN [b EXCEPT ![c] = @ + 1] ELSE b

\* One turn of the forEach callback, on variations[idx + 1].
VerifyVote ==
    /\ pc = "voting"
    /\ idx < Len(variations)
    /\ idx' = idx + 1
    /\ IF nn
       THEN \E out \in Answers :
              /\ votes' = CastVote(votes, VoteArgmaxOf[out].best)
              /\ calls' = calls + 1
              /\ ballots' = Ballot(ballots, FirstLargest(out))
              /\ scanned' = Max(scanned, VoteArgmaxOf[out].scanned)
              /\ lengths' = lengths \cup {Length(out)}
       ELSE UNCHANGED <<votes, calls, ballots, scanned, lengths>>
    /\ UNCHANGED <<nn, object, initPc, attempts, pc, op, inputData, variations,
                   winner, maxVotes, rawAnswer, seen, wellFormed, result,
                   vectors, normalizer, game, startup>>

\* Consensus with the votes array's length as the divisor.
ConsensusOverSlots(m, n) == Rat(m, VoteSlots)

\* confidence: maxVotes / variations.length
Consensus(m, n) == Rat(m, n)

\* { ...finalResult, prediction: winner, confidence: ..., isVerified: true }
VerifyResult(finalResult, w, m, n) ==
    [finalResult EXCEPT !.prediction = w,
                        !.confidence = Consensus(m, n),
                        !.isVerified = TRUE]

\* After the forEach: "Find winner".
VerifyCount ==
    /\ pc = "voting"
    /\ idx = Len(variations)
    /\ LET w == FindWinner(votes)
       IN  /\ winner' = w.best
           /\ maxVotes' = w.max
           /\ scanned' = Max(scanned, w.scanned)
    /\ pc' = "counted"
    /\ UNCHANGED <<nn, object, initPc, attempts, op, inputData, variations, idx,
                   votes, calls, ballots, rawAnswer, seen, lengths, wellFormed,
                   result, vectors, normalizer, game, startup>>

\* The final predict(inputData) and the return.
VerifyReturn ==
    /\ pc = "counted"
    /\ \E out \in PredictAnswers :
         LET p == predict(inputData, out)
         IN  /\ result' = VerifyResult(p.ret, winner, maxVotes, Len(variations))
             /\ activations' = p.act
             /\ calls' = calls + p.called
             /\ rawAnswer' = p.asked
             /\ scanned' = Max(scanned, p.scanned)
             /\ lengths' = lengths \cup p.lengths
    /\ pc' = "returned"
    /\ UNCHANGED <<nn, isLoaded, isTraining, initPc, attempts, op, inputData,
                   variations, idx, votes, winner, maxVotes, ballots, seen,
                   wellFormed, vectors, normalizer, game, startup>>

\* ------------------------------------------------- the arrays of a call
\* A vector is an array of pixel values, indexed from 0.  The vectors a
\* caller may pass are black or white but for at most one cell: a corner or
\* the centre of the grid inverted, or the centre at another level.
GridLength == size * size
Lengths == (GridLength - MaxSlack)..(GridLength + MaxSlack)
Centre == (size \div 2) * size + (size \div 2)
ProbeCells ==
    {y * size + x : x \in {0, size - 1}, y \in {0, size - 1}} \cup {Centre}
Backgrounds == {0, PixelUnit}
PixelLevels == {1, PixelUnit - 1, PixelUnit + NoiseMax + 1}
Image(len, bg, cell, v) == [i \in 0..(len - 1) |-> IF i = cell THEN v ELSE bg]
Vectors ==
    {Image(len, bg, Centre, bg) : len \in Lengths, bg \in Backgrounds}
    \cup {Image(len, bg, cell, PixelUnit - bg) :
             len \in Lengths, bg \in Backgrounds, cell \in ProbeCells}
    \cup {Image(len, bg, Centre, v) :
             len \in Lengths, bg \in Backgrounds, v \in PixelLevels}

\* Math.random() * 0.2 - 0.1 is in [-0.1, 0.1).  The noise of a call is one
\* such value for the even indices and one for the odd indices.
Noises == (0 - NoiseMax)..(NoiseMax - 1)
NoisePatterns == [{0, 1} -> Noises]

\* What a Float32Array holds after undefined is assigned to an element.
NaN == Undef - 1
Stored(v) == IF v = Undef THEN NaN ELSE v

\* The caller's vector is object InputRef; the j-th variation that is a new
\* array is object j; the copies made for the classifier and for
\* this.activations.input are the objects after those.
InputRef == 0
HandedRef == outputSize + 1
ActivationsRef == outputSize + 2
NoObjects == [r \in {} |-> ZeroArray(0)]

\* The heap h with array a as object r.
Put(h, r, a) == [q \in (DOMAIN h) \cup {r} |-> IF q = r THEN a ELSE h[q]]

\* shift allocating the 28 x 28 grid whatever the input's length.
GridArrayLength(data) == GridLength

\* new Float32Array(inputData.length)
NewArrayLength(data) == Length(data)

\* shift without the test of newX and newY against the grid.
shiftWrapping(data, dx, dy) ==
    [i \in 0..(NewArrayLength(data) - 1) |->
        IF i >= GridLength THEN 0
        ELSE LET x == i % size
                 y == i \div size
                 newX == x + dx
                 newY == y + dy
             IN  Stored(At(data, newY * size + newX))]

\* augmentInput's shift(dx, dy): the two loops write shifted[y * size + x]
\* once for every cell (x, y) of the grid that passes the test; a write past
\* the end of shifted is dropped and every other element stays 0.
shift(data, dx, dy) ==
    [i \in 0..(NewArrayLength(data) - 1) |->
        IF i >= GridLength THEN 0
        ELSE LET x == i % size
                 y == i \div size
                 newX == x + dx
                 newY == y + dy
             IN  IF newX >= 0 /\ newX < size /\ newY >= 0 /\ newY < size
                 THEN Stored(At(data, newY * size + newX))
                 ELSE 0]

Min(a, b) == IF a <= b THEN a ELSE b

\* The noisy value stored as computed.
NoClamp(val) == val

\* Math.max(0, Math.min(1, val))
Clamp(val) == Max(0, Min(PixelUnit, val))

\* The noisy copy, noise[i % 2] being the random value drawn for index i.
noisy(data, noise) ==
    [i \in 0..(Length(data) - 1) |-> Clamp(data[i] + noise[i % 2])]

\* shift and the noisy copy, tabulated once for the callers' vectors.
ShiftOf ==
    [v \in Vectors |->
        [dx \in {0 - 1, 0, 1} |-> [dy \in {0 - 1, 0, 1} |-> shift(v, dx, dy)]]]
NoisyOf == [v \in Vectors |-> [noise \in NoisePatterns |-> noisy(v, noise)]]

Shifted(data, dx, dy) ==
    IF data \in Vectors THEN ShiftOf[data][dx][dy] ELSE shift(data, dx, dy)
Noisy(data, noise) ==
    IF data \in Vectors THEN NoisyOf[data][noise] ELSE noisy(data, noise)

\* The contents of the variation d describes, over the heap h.
Pixels(h, d, noise) ==
    CASE d.kind = "original" -> h[d.of]
      [] d.kind = "shift" -> Shifted(h[d.of], d.dx, d.dy)
      [] d.kind = "noisy" -> Noisy(h[d.of], noise)

\* Every variation written into the input's own array.
TargetInPlace(d, j) == d.of

\* The object that holds the j-th variation: inputData itself for the
\* original (variations.push(inputData)), a new Float32Array for the others.
Target(d, j) == IF d.kind = "original" THEN d.of ELSE j

\* augmentInput over the heap: the variations are made in order, each
\* written into its object.
RECURSIVE Augment(_, _, _, _, _)
Augment(ds, j, h, refs, noise) ==
    IF j > Len(ds) THEN [heap |-> h, variations |-> refs]
    ELSE LET t == Target(ds[j], j)
         IN  Augment(ds, j + 1, Put(h, t, Pixels(h, ds[j], noise)),
                     Append(refs, t), noise)

\* The heap and the returned array after augmentInput(v).
augmentInputArrays(v, noise) ==
    Augment(augmentInput(InputRef), 1, Put(NoObjects, InputRef, v), <<>>, noise)

\* The classifier is handed the array itself.
HandedItself(h, r) == [heap |-> h, ref |-> r]

\* Array.from(data): the classifier is handed a new array.
HandedCopy(h, r) == [heap |-> Put(h, HandedRef, h[r]), ref |-> HandedRef]

\* window.nn is external code: it may write into the array it is handed
\* (here: it changes the first element).
Classify(h, r, writes) ==
    IF writes THEN Put(h, r, [h[r] EXCEPT ![0] = @ + 1]) ELSE h

\* The heap after predict(inputData) has stored new Float32Array(inputData)
\* and called window.nn(Array.from(inputData)).
predictArrays(h, writes) ==
    LET stored == Put(h, ActivationsRef, h[InputRef])
        handed == HandedCopy(stored, InputRef)
    IN  Classify(handed.heap, handed.ref, writes)

\* The heap after the forEach of verify has visited variations j, j+1, ...
RECURSIVE forEachArrays(_, _, _, _)
forEachArrays(h, refs, j, writes) ==
    IF j > Len(refs) THEN h
    ELSE LET handed == HandedCopy(h, refs[j])
         IN  forEachArrays(Classify(handed.heap, handed.ref, writes), refs, j + 1, writes)

\* A caller runs NeuralNetwork.augmentInput(v).
AugmentInput(v) ==
    /\ Quiet
    /\ vop = "none"
    /\ \E noise \in NoisePatterns :
         LET a == augmentInputArrays(v, noise)
         IN  /\ heap' = a.heap
             /\ ensemble' = a.variations
    /\ before' = v
    /\ vop' = "augmentInput"
    /\ offset' = [dx |-> 0, dy |-> 0]
    /\ UNCHANGED <<network, normalizer, game, startup>>

\* shift(dx, dy) of v and shift(-dx, -dy) of the result.
ShiftThereAndBack(v) ==
    /\ Quiet
    /\ vop = "none"
    /\ \E j \in 1..Len(ShiftOffsets) :
         LET o == ShiftOffsets[j]
             there == Shifted(v, o.dx, o.dy)
             back == Shifted(there, 0 - o.dx, 0 - o.dy)
         IN  /\ heap' = Put(Put(Put(NoObjects, InputRef, v), 1, there), 2, back)
             /\ offset' = o
    /\ ensemble' = <<1, 2>>
    /\ before' = v
    /\ vop' = "shift"
    /\ UNCHANGED <<network, normalizer, game, startup>>

\* The arrays of a call predict(v) that reaches the classifier.
PredictArrays(v) ==
    /\ Quiet
    /\ vop = "none"
    /\ Ready
    /\ \E writes \in BOOLEAN :
         heap' = predictArrays(Put(NoObjects, InputRef, v), writes)
    /\ ensemble' = <<HandedRef>>
    /\ before' = v
    /\ vop' = "predict"
    /\ offset' = [dx |-> 0, dy |-> 0]
    /\ UNCHANGED <<network, normalizer, game, startup>>

\* The arrays of a call verify(v) that reaches the classifier.
VerifyArrays(v) ==
    /\ Quiet
    /\ vop = "none"
    /\ Ready
    /\ \E noise \in NoisePatterns, writes \in BOOLEAN :
         LET a == augmentInputArrays(v, noise)
         IN  /\ heap' = predictArrays(forEachArrays(a.heap, a.variations, 1, writes), writes)
             /\ ensemble' = a.variations
    /\ before' = v
    /\ vop' = "verify"
    /\ offset' = [dx |-> 0, dy |-> 0]
    /\ UNCHANGED <<network, normalizer, game, startup>>

\* The caller drops what the call returned; its arrays are garbage.
Discard ==
    /\ vop # "none"
    /\ heap' = NoObjects
    /\ before' = ZeroArray(0)
    /\ ensemble' = <<>>
    /\ vop' = "none"
    /\ offset' = [dx |-> 0, dy |-> 0]
    /\ UNCHANGED <<network, normalizer, game, startup>>

\* ------------------------------------------------ App.getImageData
\* The canvas is canvasSize x canvasSize pixels of 4 bytes.  The bitmaps:
\* one byte value fg in the red channel of the pixels whose row and column
\* are both in lo..hi-1, another, bg, in the others.
Bytes == {0, ByteMax} \cup (1..MaxByte)
Spans == { <<0, 1>>, <<5, 25>>, <<3, canvasSize - 3>>,
           <<canvasSize - 1, canvasSize>>, <<canvasSize \div 2, canvasSize>> }
Bitmap(bg, fg, lo, hi) == [bg |-> bg, fg |-> fg, lo |-> lo, hi |-> hi]
Black == Bitmap(0, 0, 0, 0)
Bitmaps ==
    {Bitmap(bg, bg, 0, 0) : bg \in Bytes}
    \cup {Bitmap(p[1], p[2], sp[1], sp[2]) :
            p \in {q \in Bytes \X Bytes : q[1] # q[2]}, sp \in Spans}

\* imageData.data[i]: the bytes of the pixels row by row, red first.  The
\* green, blue and alpha bytes are not read by getImageData.
DataAt(bitmap, i) ==
    LET pixel == i \div Channels
        px == pixel % canvasSize
        py == pixel \div canvasSize
    IN  IF i % Channels # 0 THEN ByteMax
        ELSE IF px >= bitmap.lo /\ px < bitmap.hi /\ py >= bitmap.lo /\ py < bitmap.hi
             THEN bitmap.fg
             ELSE bitmap.bg

\* The cell size computed as gridSize / canvasSize.
cellSizeInverted == Rat(gridSize, canvasSize)

\* const cellSize = this.canvasSize / this.gridSize
cellSize == Rat(canvasSize, gridSize)

\* Math.floor(k * cellSize), k >= 0
FloorTimes(k, q) == (k * q.num) \div q.den

\* for (let px = startX; px < endX; px++) { sum += data[idx]; count++; }
\* from px on: what the row py adds to sum, and to count.
RECURSIVE RowSum(_, _, _, _)
RowSum(bitmap, py, px, endX) ==
    IF px >= endX THEN 0
    ELSE DataAt(bitmap, (py * canvasSize + px) * Channels)
         + RowSum(bitmap, py, px + 1, endX)

RECURSIVE RowCount(_, _)
RowCount(px, endX) == IF px >= endX THEN 0 ELSE 1 + RowCount(px + 1, endX)

\* for (let py = startY; py < endY; py++) { ... } from py on
RECURSIVE CellLoop(_, _, _, _, _)
CellLoop(bitmap, py, endY, startX, endX) ==
    IF py >= endY THEN [sum |-> 0, count |-> 0]
    ELSE LET rest == CellLoop(bitmap, py + 1, endY, startX, endX)
         IN  [sum |-> RowSum(bitmap, py, startX, endX) + rest.sum,
              count |-> RowCount(startX, endX) + rest.count]

\* const startX = Math.floor(x * cellSize), and startY likewise
CellStart(k) == FloorTimes(k, cellSize)

\* The end of a cell taken as its start plus a whole cell size less one.
CellEndShort(k) == CellStart(k) + FloorTimes(1, cellSize) - 1

\* const endX = Math.floor((x + 1) * cellSize), and endY likewise
CellEnd(k) == FloorTimes(k + 1, cellSize)

\* sum and count of the grid cell (x, y)
CellSum(bitmap, x, y) ==
    CellLoop(bitmap, CellStart(y), CellEnd(y), CellStart(x), CellEnd(x))

\* The cell averages stored without the division by 255.
getImageDataNoScale(bitmap) ==
    [i \in 0..(gridSize * gridSize - 1) |->
        LET c == CellSum(bitmap, i % gridSize, i \div gridSize)
        IN  Rat(c.sum, c.count)]

\* getImageData(): result[y * gridSize + x] = (sum / count) / 255, an exact
\* fraction; count = 0 gives 0/0, which the Float32Array holds as NaN.
getImageData(bitmap) ==
    [i \in 0..(gridSize * gridSize - 1) |->
        LET c == CellSum(bitmap, i % gridSize, i \div gridSize)
        IN  Rat(c.sum, c.count * ByteMax)]

\* getImageData has not been called for this bitmap.
NotRead == ZeroArray(0)

\* The user's strokes leave the bitmap b on the canvas.
DrawOnCanvas(b) ==
    /\ Quiet
    /\ canvas' = b
    /\ imageData' = NotRead
    /\ UNCHANGED <<network, vectors, game, startup>>

\* App.predict: const imageData = this.getImageData().  A second call on
\* the same bitmap returns the same values and is left out.
GetImageData ==
    /\ Quiet
    /\ imageData = NotRead
    /\ imageData' = getImageData(canvas)
    /\ UNCHANGED <<network, vectors, canvas, game, startup>>

\* App.clearCanvas()
ClearCanvas ==
    /\ Quiet
    /\ canvas' = Black
    /\ imageData' = NotRead
    /\ UNCHANGED <<network, vectors, game, startup>>

\* ------------------------------------------------------ App: the game
\* JavaScript's null.
Null == NaN - 1

\* this.timer = 60
GameSeconds == 60

\* The digits Math.floor(Math.random() * 10) draws for targetDigit, and the
\* digits result.prediction takes: the classes the classifier scores.
Digits == VoteClasses

\* The drawings of the game: the cleared canvas, a faint square whose cell
\* averages stay under the content threshold, and a white square.
Faint == Bitmap(0, 1, 5, 25)
Drawn == Bitmap(0, ByteMax, 5, 25)
Drawings == {Black, Faint, Drawn}

\* imageData.some(v => v > 0.1); NaN > 0.1 is false
hasContent(data) ==
    \E i \in DOMAIN data :
        data[i].den > 0 /\ data[i].num * ScoreUnit > data[i].den

\* predict's test on what getImageData returns, for each drawing.
HasContent == [b \in Drawings |-> hasContent(getImageData(b))]

\* App as its literal leaves it.
GameStart ==
    /\ gameMode = "free"
    /\ score = 0
    /\ streak = 0
    /\ targetDigit = Null
    /\ timer = GameSeconds
    /\ timerInterval = "null"
    /\ isGameActive = FALSE
    /\ intervals = 0
    /\ pendingNext = 0
    /\ pendingFree = 0
    /\ predicts = 0
    /\ run = 0
    /\ rewards = 0
    /\ startedBy = "page"

\* clearInterval(h) where n intervals run: an id that is null or was cleared
\* before clears nothing.
clearInterval(h, n) ==
    IF h = "live" THEN [h |-> "cleared", n |-> n - 1] ELSE [h |-> h, n |-> n]

\* resetGame leaving the running interval alone.
resetGameNoClear(h, n) ==
    [score |-> 0, streak |-> 0, timer |-> GameSeconds, isGameActive |-> TRUE,
     h |-> h, n |-> n]

\* resetGame(): the fields afterwards, the interval id h and the number n of
\* running intervals; if (this.timerInterval) clearInterval(...)
resetGame(h, n) ==
    LET c == IF h # "null" THEN clearInterval(h, n) ELSE [h |-> h, n |-> n]
    IN  [score |-> 0, streak |-> 0, timer |-> GameSeconds, isGameActive |-> TRUE,
         h |-> c.h, n |-> c.n]

\* startTimer(): this.timer = 60; this.timerInterval = setInterval(...)
startTimer(n) == [timer |-> GameSeconds, h |-> "live", n |-> n + 1]

\* setGameMode(mode): resetGame, then startTimer and nextChallenge for
\* "time", nextChallenge for "challenge", no target otherwise.
setGameMode(mode) ==
    LET r == resetGame(timerInterval, intervals)
        t == startTimer(r.n)
    IN  /\ gameMode' = mode
        /\ score' = r.score
        /\ streak' = r.streak
        /\ isGameActive' = r.isGameActive
        /\ timer' = IF mode = "time" THEN t.timer ELSE r.timer
        /\ timerInterval' = IF mode = "time" THEN t.h ELSE r.h
        /\ intervals' = IF mode = "time" THEN t.n ELSE r.n
        /\ IF mode = "free" THEN targetDigit' = Null
                           ELSE targetDigit' \in Digits
        /\ predicts' = 0
        /\ run' = 0
        /\ rewards' = 0

\* The user clicks a mode button.  A time attack is started while fewer than
\* MaxPending clicks of ended games are scheduled.
ModeClick(mode) ==
    /\ mode = "time" => pendingFree < MaxPending
    /\ setGameMode(mode)
    /\ startedBy' = "user"
    /\ UNCHANGED <<pendingNext, pendingFree>>
    /\ UNCHANGED <<network, vectors, normalizer, startup>>

\* The timeout of endGame fires, 3 s after the game ended:
\* document.querySelector('[data-mode="free"]').click()
FreeClickTimeout ==
    /\ pendingFree > 0
    /\ pendingFree' = pendingFree - 1
    /\ setGameMode("free")
    /\ startedBy' = "timeout"
    /\ UNCHANGED pendingNext
    /\ UNCHANGED <<network, vectors, normalizer, startup>>

\* The test of the interval callback taken as timer < 0.
TimeUpBelow(t) == t < 0

\* if (this.timer <= 0)
TimeUp(t) == t <= 0

\* An interval of startTimer fires: this.timer--, and endGame() when the
\* time is up: clearInterval(this.timerInterval), isGameActive = false and
\* the click on the free mode button scheduled.
Tick ==
    /\ intervals > 0
    /\ timer' = timer - 1
    /\ IF TimeUp(timer')
       THEN LET c == clearInterval(timerInterval, intervals)
            IN  /\ timerInterval' = c.h
                /\ intervals' = c.n
                /\ isGameActive' = FALSE
                /\ pendingFree' = pendingFree + 1
       ELSE UNCHANGED <<timerInterval, intervals, isGameActive, pendingFree>>
    /\ UNCHANGED <<gameMode, score, streak, targetDigit, pendingNext, predicts,
                   run, rewards, startedBy>>
    /\ UNCHANGED <<network, vectors, normalizer, startup>>

\* The points of a correct prediction without the streak bonus.
PointsFlat(s) == ScoreUnit

\* 10 + (this.streak * 2)
Points(s) == ScoreUnit + (s * 2)

\* handleGameLogic(prediction): score and streak afterwards, and whether the
\* timeout that draws the next target was scheduled.
handleGameLogic(prediction) ==
    IF gameMode = "free" \/ targetDigit = Null
    THEN [score |-> score, streak |-> streak, scheduled |-> 0]
    ELSE IF prediction = targetDigit
         THEN [score |-> score + Points(streak), streak |-> streak + 1,
               scheduled |-> 1]
         ELSE [score |-> score, streak |-> 0, scheduled |-> 0]

\* App.predict() on a canvas with content, the classifier answering
\* prediction: handleGameLogic(result.prediction).  On a canvas without
\* content predict returns before it and leaves the game as it is.  At most
\* MaxPredicts calls follow a mode selection and at most MaxPending timeouts
\* are scheduled.
GamePredict(prediction) ==
    /\ HasContent[canvas]
    /\ predicts < MaxPredicts
    /\ LET h == handleGameLogic(prediction)
       IN  /\ pendingNext + h.scheduled <= MaxPending
           /\ score' = h.score
           /\ streak' = h.streak
           /\ pendingNext' = pendingNext + h.scheduled
           /\ rewards' = rewards + h.scheduled
           /\ run' = IF gameMode = "free" \/ targetDigit = Null THEN run
                     ELSE IF prediction = targetDigit THEN run + 1 ELSE 0
    /\ predicts' = predicts + 1
    /\ UNCHANGED <<gameMode, targetDigit, timer, timerInterval, isGameActive,
                   intervals, pendingFree, startedBy>>
    /\ UNCHANGED <<network, vectors, normalizer, startup>>

\* The timeout of a correct prediction fires, 1.5 s after it: clearCanvas(),
\* resetPrediction(), NetworkViz.reset(), nextChallenge().
NextChallengeTimeout ==
    /\ pendingNext > 0
    /\ pendingNext' = pendingNext - 1
    /\ canvas' = Black
    /\ imageData' = NotRead
    /\ targetDigit' \in Digits
    /\ rewards' = 0
    /\ UNCHANGED <<gameMode, score, streak, timer, timerInterval, isGameActive,
                   intervals, pendingFree, predicts, run, startedBy>>
    /\ UNCHANGED <<network, vectors, startup>>

\* ------------------------------------- model.js: the TensorFlow.js model
\* NeuralNetwork.model is "null", or a tf model: "built" by buildModel,
\* "loaded" from storage, or "partial" when buildModel threw after
\* this.model = tf.sequential().  The object of part_000 has no such field
\* ("undefined").  init() is followed through its awaits: initPc is "start",
\* "loading" (tf.loadLayersModel), "training" (model.fit), "saving"
\* (model.save), "done", or "skipped" when tf is not defined.
ModelJs == model # "undefined"

\* DOMContentLoaded: if tf is defined init() runs buildModel(), which has no
\* await, and on to loadFromStorage()'s await; a throw of buildModel is
\* caught by init, which returns.
ModelContentLoaded ==
    /\ ModelJs
    /\ Quiet
    /\ initPc = "start"
    /\ \/ /\ initPc' = "skipped"
          /\ UNCHANGED <<model, isLoaded>>
       \/ /\ model' = "built"
          /\ initPc' = "loading"
          /\ UNCHANGED isLoaded
       \/ /\ model' \in {"null", "partial"}
          /\ isLoaded' = TRUE
          /\ initPc' = "done"
    /\ UNCHANGED <<nn, isTraining, activations, attempts, pc, op, locals,
                   wellFormed, result, vectors, normalizer, game, appPc>>

\* tf.loadLayersModel settles.  A saved model replaces this.model and init
\* returns; otherwise trainWithSyntheticData() sets isTraining and runs up to
\* the await of model.fit, or throws before it.
ModelLoadSettled ==
    /\ ModelJs
    /\ Quiet
    /\ initPc = "loading"
    /\ \/ /\ model' = "loaded"
          /\ isLoaded' = TRUE
          /\ initPc' = "done"
          /\ UNCHANGED isTraining
       \/ /\ isTraining' = TRUE
          /\ initPc' = "training"
          /\ UNCHANGED <<model, isLoaded>>
       \/ /\ isTraining' = TRUE
          /\ isLoaded' = TRUE
          /\ initPc' = "done"
          /\ UNCHANGED model
    /\ UNCHANGED <<nn, activations, attempts, pc, op, locals, wellFormed, result,
                   vectors, normalizer, game, appPc>>

\* model.fit settles: resolved, isTraining = false and on to saveToStorage's
\* await; rejected, init's catch runs and isTraining stays as it is.
ModelFitSettled ==
    /\ ModelJs
    /\ Quiet
    /\ initPc = "training"
    /\ \/ /\ isTraining' = FALSE
          /\ initPc' = "saving"
          /\ UNCHANGED isLoaded
       \/ /\ isLoaded' = TRUE
          /\ initPc' = "done"
          /\ UNCHANGED isTraining
    /\ UNCHANGED <<nn, activations, attempts, pc, op, locals, wellFormed, result,
                   vectors, normalizer, game, model, appPc>>

\* model.save settles (saveToStorage catches its rejection): init sets
\* isLoaded and returns.
ModelSaveSettled ==
    /\ ModelJs
    /\ Quiet
    /\ initPc = "saving"
    /\ isLoaded' = TRUE
    /\ initPc' = "done"
    /\ UNCHANGED <<nn, isTraining, activations, attempts, pc, op, locals,
                   wellFormed, result, vectors, normalizer, game, model, appPc>>

\* What predict leaves when this.model.predict throws.
Raised ==
    [prediction |-> Undef, confidence |-> Rat(0, ScoreUnit),
     probabilities |-> ZeroArray(0), isVerified |-> FALSE]

\* if (!this.model || this.isTraining)
PlaceholderGuard == model = "null" \/ isTraining

\* model.js predict(inputData) where out is what this.model.predict gives:
\* the placeholder under the guard; else the input activations are stored
\* and the model runs.  A partly built model throws.  hidden holds 64
\* values Math.random() * maxProb * 5, kept as their bound.
predictModel(x, out) ==
    IF PlaceholderGuard
    THEN [ret |-> Placeholder, act |-> activations, called |-> 0, asked |-> NoCall,
          scanned |-> 0, lengths |-> {}]
    ELSE IF model = "partial"
    THEN [ret |-> Raised, act |-> [activations EXCEPT !.input = x],
          called |-> 1, asked |-> NoCall, scanned |-> 0, lengths |-> {}]
    ELSE LET am == PredictArgmaxOf[out]
         IN  [ret |-> PredictResult(out, am),
              act |-> StoreActivations(x, out, am.max * 5),
              called |-> 1,
              asked |-> [arg |-> Original(x), out |-> out],
              scanned |-> am.scanned, lengths |-> {Length(out)}]

\* A caller runs model.js's NeuralNetwork.predict(x).
PredictModel(x) ==
    /\ ModelJs
    /\ Quiet
    /\ \E out \in IF PlaceholderGuard \/ model = "partial"
                   THEN {ZeroArray(outputSize)} ELSE Dists :
         LET p == predictModel(x, out)
         IN  /\ result' = p.ret
             /\ activations' = p.act
             /\ calls' = p.called
             /\ rawAnswer' = p.asked
             /\ scanned' = p.scanned
             /\ lengths' = p.lengths
    /\ seen' = [nn |-> nn, isLoaded |-> isLoaded]
    /\ pc' = "returned"
    /\ op' = "predict"
    /\ inputData' = x
    /\ variations' = <<>>
    /\ idx' = 0
    /\ votes' = ZeroArray(0)
    /\ winner' = 0
    /\ maxVotes' = 0
    /\ ballots' = ZeroArray(outputSize)
    /\ UNCHANGED <<nn, isLoaded, isTraining, initPc, attempts, wellFormed,
                   vectors, normalizer, game, startup>>

\* ------------------------------------------------ App.init, waitForModel
\* checkModel: resolve() if isLoaded && !isTraining, else
\* setTimeout(checkModel, 500)
checkModel == IF isLoaded /\ ~isTraining THEN "ready" ELSE "polling"

\* DOMContentLoaded: App.init() runs up to await this.waitForModel(), whose
\* promise calls checkModel at once.
AppInit ==
    /\ Quiet
    /\ appPc = "start"
    /\ appPc' = checkModel
    /\ UNCHANGED <<network, vectors, normalizer, game, model>>

\* The 500 ms timeout of checkModel fires.
CheckModelTimeout ==
    /\ Quiet
    /\ appPc = "polling"
    /\ appPc' = checkModel
    /\ UNCHANGED <<network, vectors, normalizer, game, model>>

\* ------------------------------------------------------- specification
\* The page is loaded: the NeuralNetwork object as its literal leaves it, no
\* handler has run; build.js may or may not have defined window.nn yet.
Loading ==
    /\ nn \in BOOLEAN
    /\ isLoaded = FALSE
    /\ initPc = "start"
    /\ attempts = 0
    /\ model = "undefined"

\* The page is loaded with model.js as its NeuralNetwork: the object as its
\* literal leaves it, model: null.  window.nn plays no part.
LoadingModel ==
    /\ nn = FALSE
    /\ isLoaded = FALSE
    /\ initPc = "start"
    /\ attempts = 0
    /\ model = "null"

\* init() has found window.nn and has set isLoaded.
Loaded ==
    /\ nn = TRUE
    /\ isLoaded = TRUE
    /\ initPc = "done"
    /\ attempts = 0
    /\ model = "undefined"

\* No handler has run.
NoCallYet ==
    /\ isTraining = FALSE
    /\ activations = [input |-> 0, hidden |-> 0, output |-> ZeroArray(outputSize)]
    /\ pc = "idle"
    /\ op = "none"
    /\ inputData = 0
    /\ variations = <<>>
    /\ idx = 0
    /\ votes = ZeroArray(0)
    /\ winner = 0
    /\ maxVotes = 0
    /\ calls = 0
    /\ ballots = ZeroArray(outputSize)
    /\ rawAnswer = NoCall
    /\ seen = [nn |-> FALSE, isLoaded |-> FALSE]
    /\ scanned = 0
    /\ lengths = {}
    /\ result = NoResult
    /\ heap = NoObjects
    /\ before = ZeroArray(0)
    /\ ensemble = <<>>
    /\ vop = "none"
    /\ offset = [dx |-> 0, dy |-> 0]
    /\ canvas = Black
    /\ imageData = NotRead
    /\ GameStart
    /\ appPc = "start"

Start == Loading /\ NoCallYet

\* The classifier at window.nn answers with outputSize entries.
Init == Start /\ wellFormed = TRUE

\* The classifier at window.nn answers with another number of entries.
InitAnyAnswer == Start /\ wellFormed = FALSE

Next ==
    \/ InitStart
    \/ InitTimeout
    \/ NnDefined
    \/ \E x \in Inputs : Predict(x)
    \/ \E x \in Inputs : VerifyCall(x)
    \/ VerifyVote
    \/ VerifyCount
    \/ VerifyReturn

Spec == Init /\ [][Next]_vars

SpecAnyAnswer == InitAnyAnswer /\ [][Next]_vars

\* The calls seen through their arrays, from a page whose init() has found
\* window.nn and set isLoaded.
InitArrays == Loaded /\ NoCallYet /\ wellFormed = TRUE

NextArrays ==
    \/ \E v \in Vectors : AugmentInput(v)
    \/ \E v \in Vectors : ShiftThereAndBack(v)
    \/ \E v \in Vectors : PredictArrays(v)
    \/ \E v \in Vectors : VerifyArrays(v)
    \/ Discard

SpecArrays == InitArrays /\ [][NextArrays]_vars

\* The drawing canvas and its normalizer.
NextNormalizer ==
    \/ \E b \in Bitmaps : DrawOnCanvas(b)
    \/ GetImageData
    \/ ClearCanvas

SpecNormalizer == InitArrays /\ [][NextNormalizer]_vars

\* The game: mode buttons, the predict button, the drawing canvas, the
\* interval of the time attack and the timeouts of endGame and of a correct
\* prediction.
NextGame ==
    \/ \E mode \in {"free", "challenge", "time"} : ModeClick(mode)
    \/ FreeClickTimeout
    \/ Tick
    \/ \E prediction \in Digits : GamePredict(prediction)
    \/ NextChallengeTimeout
    \/ \E b \in Drawings \ {Black} : DrawOnCanvas(b)
    \/ ClearCanvas

SpecGame == InitArrays /\ [][NextGame]_vars

\* The page starting up with either NeuralNetwork: that of part_000 polling
\* for window.nn, or that of model.js building, loading or training its
\* model; App.init waiting for it; callers of predict.
InitStartup == (Loading \/ LoadingModel) /\ NoCallYet /\ wellFormed = TRUE

BrainJs == ~ModelJs

NextStartup ==
    \/ BrainJs /\ InitStart
    \/ BrainJs /\ InitTimeout
    \/ BrainJs /\ NnDefined
    \/ BrainJs /\ \E x \in Inputs : Predict(x)
    \/ ModelContentLoaded
    \/ ModelLoadSettled
    \/ ModelFitSettled
    \/ ModelSaveSettled
    \/ \E x \in Inputs : PredictModel(x)
    \/ AppInit
    \/ CheckModelTimeout

\* Timeouts fire, DOMContentLoaded is dispatched and the promises of
\* TensorFlow.js settle; whether build.js ever defines window.nn and whether
\* anyone calls predict is left open.
StartupFairness ==
    /\ WF_vars(BrainJs /\ InitStart)
    /\ WF_vars(BrainJs /\ InitTimeout)
    /\ WF_vars(ModelContentLoaded)
    /\ WF_vars(ModelLoadSettled)
    /\ WF_vars(ModelFitSettled)
    /\ WF_vars(ModelSaveSettled)
    /\ WF_vars(AppInit)
    /\ WF_vars(CheckModelTimeout)

SpecStartup == InitStartup /\ [][NextStartup]_vars /\ StartupFairness

\* ------------------------------------------------------------- claims
VerifyReturned == pc = "returned" /\ op = "verify"
PredictReturned == pc = "returned" /\ op = "predict"

\* The classifier was ready for the call that runs or has returned.
SeenReady == seen.nn /\ seen.isLoaded

\* The ensemble's tally for class c: the answers whose largest score is first
\* reached at c.
Tally(c) == IF c \in DOMAIN ballots THEN ballots[c] ELSE 0

InUnit(q) == q.den > 0 /\ 0 <= q.num /\ q.num <= q.den

\* C1: with the classifier unavailable (window.nn absent, or the model not
\* initialized) verify returns no result.  The program has no error path:
\* verify returns a result in every state, so the statement is that verify
\* has returned only when the classifier was ready.
C1_VerifyFailsFast == VerifyReturned => SeenReady

\* C2: with the classifier not ready predict returns no result (no
\* placeholder, no fallback scoring).
C2_PredictFailsFast == PredictReturned => (SeenReady /\ result # Placeholder)

\* C3: verify's confidence lies in [0,1] and is tally[winningClass] / 10.
C3_ConsensusConfidence ==
    VerifyReturned =>
        /\ InUnit(result.confidence)
        /\ RatEq(result.confidence, Rat(Tally(result.prediction), 10))

\* C3's case: six of the ten variations voted for the winner.
C3_Witness ==
    /\ VerifyReturned
    /\ SeenReady
    /\ Tally(result.prediction) = 6
    /\ result.confidence = Rat(6, 10)

\* C4: the winner's tally is maximal over the classes 0..9, and a class with
\* strictly the most votes wins with confidence votes / 10.  A one-hot answer
\* counts for its hot class, so this covers every assignment of one-hot
\* answers to the ten variations.
C4_MajorityWins ==
    VerifyReturned =>
        /\ \A c \in 0..9 : Tally(c) <= Tally(result.prediction)
        /\ \A c \in 0..9 :
             (\A d \in 0..9 : d # c => Tally(d) < Tally(c))
                => /\ result.prediction = c
                   /\ RatEq(result.confidence, Rat(Tally(c), 10))

\* C4's case: six votes for class 9 against four for class 1.
C4_Witness ==
    /\ VerifyReturned
    /\ Tally(9) = 6
    /\ Tally(1) = 4
    /\ result.prediction = 9
    /\ RatEq(result.confidence, Rat(6, 10))

\* C5: ties go to the lowest index.  Each variation's vote goes to the first
\* index holding the answer's largest score (votes agrees with the ballots),
\* the winner is the first index holding the largest tally, and predict
\* returns the first index holding its answer's largest score.
C5_LowestIndexOnTies ==
    /\ op = "verify" => \A i \in DOMAIN votes : votes[i] = Tally(i)
    /\ (op = "verify" /\ pc \in {"counted", "returned"})
          => winner = FirstLargest(votes)
    /\ VerifyReturned => result.prediction = winner
    /\ (PredictReturned /\ SeenReady)
          => result.prediction = FirstLargest(rawAnswer.out)

\* C5's case: classes 1 and 9 tie with five votes each, and class 1 wins.
C5_Witness ==
    /\ VerifyReturned
    /\ Tally(1) = 5
    /\ Tally(9) = 5
    /\ result.prediction = 1

RECURSIVE SumTo(_, _)
SumTo(v, n) == IF n = 0 THEN 0 ELSE v[n - 1] + SumTo(v, n - 1)

\* The number of votes in the tally.
SumVotes == SumTo(votes, VoteSlots)

\* C6: whenever verify returns a result, exactly 10 answers were tallied.
C6_CompleteEnsemble == VerifyReturned => SumVotes = 10

\* A step of verify: VerifyCall, VerifyVote, VerifyCount or VerifyReturn.
VerifyStep == pc' = "voting" \/ pc = "voting" \/ pc = "counted"

C9_RawDistribution ==
    (VerifyReturned /\ seen.nn) =>
        /\ rawAnswer # NoCall
        /\ rawAnswer.arg = Original(inputData)
        /\ result.probabilities = rawAnswer.out

\* C10: with the classifier ready predict calls it once, on its input, and
\* returns the first index of the answer's largest score with that score as
\* the confidence.
C10_PredictOnce ==
    (PredictReturned /\ SeenReady) =>
        /\ calls = 1
        /\ rawAnswer.arg = Original(inputData)
        /\ result.probabilities = rawAnswer.out
        /\ result.prediction = FirstLargest(rawAnswer.out)
        /\ RatEq(result.confidence,
                 Rat(rawAnswer.out[FirstLargest(rawAnswer.out)], ScoreUnit))

\* C10's case: the answer ties classes 1 and 9 at 0.2 above class 0 at 0.1,
\* and predict returns class 1 with confidence 0.2.
C10_Witness ==
    /\ PredictReturned
    /\ SeenReady
    /\ rawAnswer.out[0] = 1
    /\ rawAnswer.out[1] = 2
    /\ rawAnswer.out[9] = 2
    /\ result.prediction = 1
    /\ result.confidence = Rat(2, ScoreUnit)

Classes == 0..(outputSize - 1)

\* C11: in verify every class-indexed loop reads exactly the indices 0..9 of
\* the classifier's answer and of the tally, and none from 10 on: once the
\* winner is found, the longest loop of the call has read outputSize indices.
C11_LoopsScanTenClasses ==
    (op = "verify" /\ pc \in {"counted", "returned"}) => scanned = outputSize

\* C12: with answers of exactly 10 entries, every vote verify casts goes to a
\* class in 0..9, and the winner verify found and the class verify or predict
\* returned are in 0..9.
C12_VotesAndWinnersAreClasses ==
    /\ op = "verify" => \A c \in DOMAIN votes : votes[c] > 0 => c \in Classes
    /\ (op = "verify" /\ pc \in {"counted", "returned"}) => winner \in Classes
    /\ pc = "returned" => result.prediction \in Classes

\* verify returned the highest class, all eleven answers having 10 entries.
C12_Witness ==
    /\ VerifyReturned
    /\ calls = Len(variations) + 1
    /\ lengths = {outputSize}
    /\ result.prediction = outputSize - 1
    /\ Tally(outputSize - 1) > 0

\* C13: when the classifier answers with a length other than 10, verify and
\* predict surface an error.  The program has no error path, so the statement
\* is that a handler has returned only if every answer it got had 10 entries.
C13_MalformedAnswerIsAnError ==
    pc = "returned" => lengths \subseteq {outputSize}

\* A call on a vector has returned.
ArraysReturned == vop \in {"augmentInput", "predict", "verify"}

\* C14: augmentInput, verify and predict reject a vector whose length is not
\* 784.  The program has no error path, so the statement is that such a call
\* has returned only if its vector had 784 values.
C14_InvalidInputRejected == ArraysReturned => Length(before) = GridLength

\* The array that holds variant k (0..9) of the last augmentInput.
Variant(k) == heap[ensemble[k + 1]]

\* C15: augmentInput returns exactly 10 variants, each of the input's
\* length, and variant 0 is element for element the input.
C15_TenVariantsOfInputLength ==
    vop = "augmentInput" =>
        /\ Len(ensemble) = 10
        /\ \A k \in 0..(Len(ensemble) - 1) : Length(Variant(k)) = Length(before)
        /\ \A i \in DOMAIN before : Variant(0)[i] = before[i]

\* augmentInput returned for a vector of another length than 784 that is
\* not black.
C15_Witness ==
    /\ vop = "augmentInput"
    /\ Length(before) # GridLength
    /\ \E i \in DOMAIN before : before[i] > 0
    /\ Len(ensemble) = 10

InGrid(x, y) == x >= 0 /\ x < size /\ y >= 0 /\ y < size

\* The offsets (dx, dy) of variants 1..8 as the claim lists them.
ListedOffsets ==
    << <<0 - 1, 0 - 1>>, <<0, 0 - 1>>, <<1, 0 - 1>>, <<0 - 1, 0>>,
       <<1, 0>>, <<0 - 1, 1>>, <<0, 1>>, <<1, 1>> >>

\* C16: for a 784-vector, variant k (1..8) is the shift for the k-th listed
\* offset (dx, dy): its cell (x, y) holds the input's value at (x+dx, y+dy)
\* when that is inside the grid, and 0 otherwise.
C16_ShiftsInOrder ==
    (vop = "augmentInput" /\ Length(before) = GridLength) =>
        \A k \in 1..8 :
            LET dx == ListedOffsets[k][1]
                dy == ListedOffsets[k][2]
            IN  \A x \in 0..(size - 1), y \in 0..(size - 1) :
                    Variant(k)[y * size + x] =
                        IF InGrid(x + dx, y + dy)
                        THEN before[(y + dy) * size + (x + dx)]
                        ELSE 0

\* A white 784-vector was shifted by (-1,-1): the first cell is zero-filled
\* and the cell (1,1) holds the input's first value.
C16_Witness ==
    /\ vop = "augmentInput"
    /\ Length(before) = GridLength
    /\ before[0] = PixelUnit
    /\ Variant(1)[0] = 0
    /\ Variant(1)[size + 1] = before[0]

\* C17: shifting a 784-vector by one of the 8 offsets (dx, dy) and then by
\* (-dx, -dy) gives, at every cell (x, y), the input's value when the
\* intermediate coordinate (x-dx, y-dy) is inside the grid and 0 otherwise.
C17_ShiftRoundTrip ==
    (vop = "shift" /\ Length(before) = GridLength) =>
        \A x \in 0..(size - 1), y \in 0..(size - 1) :
            heap[ensemble[2]][y * size + x] =
                IF InGrid(x - offset.dx, y - offset.dy)
                THEN before[y * size + x]
                ELSE 0

\* A round trip gave back one value that was not 0 and zero-filled another.
C17_Witness ==
    /\ vop = "shift"
    /\ Length(before) = GridLength
    /\ \E i \in DOMAIN before : before[i] > 0 /\ heap[ensemble[2]][i] = before[i]
    /\ \E i \in DOMAIN before : before[i] > 0 /\ heap[ensemble[2]][i] = 0

\* The distance of two pixel values.
Dist(a, b) == IF a >= b THEN a - b ELSE b - a

\* C18: every element of the noise variant is clamp(input[i] + n, 0, 1) for
\* some n in [-0.1, 0.1]: it is in [0, 1], and when input[i] is in [0, 1] it
\* is at most 0.1 away from input[i].
C18_NoiseClamped ==
    vop = "augmentInput" =>
        \A i \in DOMAIN before :
            LET out == Variant(Len(ensemble) - 1)[i]
            IN  /\ 0 <= out /\ out <= PixelUnit
                /\ \E n \in (0 - NoiseMax)..NoiseMax :
                      out = IF before[i] + n < 0 THEN 0
                            ELSE IF before[i] + n > PixelUnit THEN PixelUnit
                            ELSE before[i] + n
                /\ (0 <= before[i] /\ before[i] <= PixelUnit)
                      => Dist(out, before[i]) <= NoiseMax

\* The noise of one call was positive on the even indices, where a white
\* cell was clamped at 1 while the centre rose, and negative on the odd ones.
C18_Witness ==
    /\ vop = "augmentInput"
    /\ before[Centre + 2] = PixelUnit
    /\ Variant(9)[Centre + 2] = PixelUnit
    /\ Variant(9)[Centre] > before[Centre]
    /\ Variant(9)[Centre + 1] < before[Centre + 1]

\* C19: after augmentInput, verify or predict returns, the caller's vector
\* holds the values it had before the call, and no shifted or noisy variant
\* was written into the caller's array.
C19_InputNotMutated ==
    ArraysReturned =>
        /\ heap[InputRef] = before
        /\ vop \in {"augmentInput", "verify"}
             => \A k \in 1..(Len(ensemble) - 1) : ensemble[k + 1] # InputRef

\* verify returned, the classifier having written into the array it was
\* handed, and the caller's vector (not black) is as before.
C19_Witness ==
    /\ vop = "verify"
    /\ \E i \in DOMAIN before : before[i] > 0
    /\ heap[HandedRef] # before
    /\ heap[InputRef] = before

\* getImageData has returned.
Normalized == imageData # NotRead

\* C20: getImageData returns a vector of exactly 784 elements, each a number
\* in [0,1]: every grid cell averages over at least one source pixel (the
\* divisor count * 255 is positive) and its sum is at most count * 255.
C20_NormalizedInUnit ==
    Normalized =>
        /\ Length(imageData) = GridLength
        /\ \A i \in DOMAIN imageData : InUnit(imageData[i])

\* A bitmap gave a cell that is 1, a cell that is 0 and a cell in between.
C20_Witness ==
    /\ Normalized
    /\ \E i \in DOMAIN imageData : RatEq(imageData[i], Rat(1, 1))
    /\ \E i \in DOMAIN imageData : RatEq(imageData[i], Rat(0, 1))
    /\ \E i \in DOMAIN imageData :
          /\ imageData[i].num > 0
          /\ imageData[i].num < imageData[i].den

\* The grid indices of one axis, and the number of source pixels of the cell
\* that stands at index i of the returned vector.
Cells == 0..(gridSize - 1)
CellPixels(i) ==
    (CellEnd(i % gridSize) - CellStart(i % gridSize))
        * (CellEnd(i \div gridSize) - CellStart(i \div gridSize))

\* Canvas sizes that are not multiples of the grid size.
OtherSizes ==
    {gridSize + 1, canvasSize \div 2 + 1, canvasSize - 1, canvasSize + 1}

\* C21: the cells partition the source.  On each axis the first cell starts
\* at pixel 0, the end of cell k is the start of cell k + 1, the last cell
\* ends at the canvas size and no cell is empty, so every pixel 0..size-1 is
\* in exactly one cell; each element of the returned vector averages exactly
\* the pixels of its cell.  The same bounds floor(k * size / 28) partition
\* 0..size-1 for sizes that are not multiples of 28.
C21_CellsPartitionSource ==
    Normalized =>
        /\ CellStart(0) = 0
        /\ CellEnd(gridSize - 1) = canvasSize
        /\ \A k \in Cells : CellStart(k) < CellEnd(k)
        /\ \A k \in Cells \ {gridSize - 1} : CellEnd(k) = CellStart(k + 1)
        /\ \A p \in 0..(canvasSize - 1) :
              \E k \in Cells :
                 /\ CellStart(k) <= p /\ p < CellEnd(k)
                 /\ \A j \in Cells \ {k} : ~(CellStart(j) <= p /\ p < CellEnd(j))
        /\ \A i \in DOMAIN imageData :
              imageData[i].den = CellPixels(i) * ByteMax
        /\ \A sz \in OtherSizes :
              \A p \in 0..(sz - 1) :
                 \E k \in Cells :
                    /\ FloorTimes(k, Rat(sz, gridSize)) <= p
                    /\ p < FloorTimes(k + 1, Rat(sz, gridSize))
                    /\ \A j \in Cells \ {k} :
                          ~(/\ FloorTimes(j, Rat(sz, gridSize)) <= p
                            /\ p < FloorTimes(j + 1, Rat(sz, gridSize)))

\* A drawn square that covers part of the grid has been normalized: cells
\* inside it and cells outside it were averaged.
C21_Witness ==
    /\ Normalized
    /\ canvas.fg # canvas.bg
    /\ canvas.lo > 0
    /\ canvas.hi < canvasSize
    /\ \E i \in DOMAIN imageData : RatEq(imageData[i], Rat(canvas.fg, ByteMax))
    /\ \E i \in DOMAIN imageData : RatEq(imageData[i], Rat(canvas.bg, ByteMax))

\* C22: a bitmap whose sampled channel is v in every pixel normalizes to a
\* vector whose every element is v / 255; the all-white canvas (v = 255)
\* gives 784 elements equal to 1.
C22_UniformBitmap ==
    (Normalized /\ (canvas.fg = canvas.bg \/ canvas.lo >= canvas.hi)) =>
        /\ Length(imageData) = GridLength
        /\ \A i \in DOMAIN imageData :
              /\ imageData[i].den > 0
              /\ RatEq(imageData[i], Rat(canvas.bg, ByteMax))
        /\ canvas.bg = ByteMax =>
              \A i \in DOMAIN imageData : RatEq(imageData[i], Rat(1, 1))

\* The all-white canvas has been normalized to 784 ones.
C22_Witness ==
    /\ Normalized
    /\ canvas = Bitmap(ByteMax, ByteMax, 0, 0)
    /\ Length(imageData) = GridLength
    /\ \A i \in DOMAIN imageData : RatEq(imageData[i], Rat(1, 1))

\* C30: at most one interval of startTimer runs at any time, and it is the
\* one App.timerInterval names; outside time attack none runs.
C30_AtMostOneTimer ==
    /\ intervals \in {0, 1}
    /\ intervals = 1 <=> timerInterval = "live"
    /\ gameMode \in {"free", "challenge"} => intervals = 0

\* A time attack runs and has ticked after an earlier time attack ended (its
\* click on the free mode button is still scheduled): one interval runs.
C30_Witness ==
    /\ gameMode = "time"
    /\ intervals = 1
    /\ startedBy = "user"
    /\ timer < GameSeconds
    /\ pendingFree > 0

\* A mode is selected, by the user or by the timeout of an ended game.
ModeSelected ==
    \/ \E mode \in {"free", "challenge", "time"} : ModeClick(mode)
    \/ FreeClickTimeout

\* The predict button is pressed on a canvas with content.
Predicted == \E prediction \in Digits : GamePredict(prediction)

\* C24: selecting time attack sets the timer to 60 and starts its interval;
\* every tick takes exactly 1 off the timer; the timer is never below 0; the
\* tick that brings it to 0 ends the game: no interval runs afterwards and
\* isGameActive is false, and no other tick changes either.
C24_TimeAttack ==
    [][ /\ ModeClick("time") =>
              (timer' = GameSeconds /\ intervals' = 1 /\ isGameActive')
        /\ Tick =>
              /\ timer' = timer - 1
              /\ timer' = 0 => (intervals' = 0 /\ ~isGameActive')
              /\ timer' > 0 =>
                    (intervals' = intervals /\ isGameActive' = isGameActive)
        /\ timer' >= 0
        /\ timer' <= GameSeconds ]_vars

\* A time attack has run its 60 ticks and has ended.
C24_Witness ==
    /\ gameMode = "time"
    /\ timer = 0
    /\ intervals = 0
    /\ ~isGameActive
    /\ pendingFree > 0

\* C25: a prediction handled in a non-free mode with a target adds
\* 10 + 2 * streak to score and 1 to streak when it equals the target, and
\* sets streak to 0 and leaves score when it differs; in free mode neither
\* changes.  streak is the number of correct predictions in a row since the
\* last miss or mode selection, and score decreases only when a mode is
\* selected.
C25_StreakAndScore ==
    [][ /\ \A prediction \in Digits :
              GamePredict(prediction) =>
                 IF gameMode = "free" \/ targetDigit = Null
                 THEN score' = score /\ streak' = streak
                 ELSE IF prediction = targetDigit
                      THEN /\ score' = score + ScoreUnit + 2 * streak
                           /\ streak' = streak + 1
                      ELSE score' = score /\ streak' = 0
        /\ streak' = run'
        /\ score' < score => ModeSelected ]_vars

\* Two correct predictions in a row: 10 points, then 12.
C25_Witness ==
    /\ gameMode # "free"
    /\ streak = 2
    /\ run = 2
    /\ score = ScoreUnit + (ScoreUnit + 2)

\* C26: once the timer of a time attack has reached 0 and the game has
\* ended, a press of the predict button changes neither score nor streak
\* until a mode is selected.
C26_NoScoringAfterGameEnd ==
    [][ (Predicted /\ gameMode = "time" /\ timer = 0 /\ ~isGameActive) =>
            (score' = score /\ streak' = streak) ]_vars

\* C27: the click on the free mode button that endGame scheduled for an
\* earlier game leaves the score, streak, timer and mode of a game the user
\* has started since and that has not ended.
C27_StaleClickLeavesNewGame ==
    [][ (FreeClickTimeout /\ startedBy = "user" /\ isGameActive) =>
            UNCHANGED <<score, streak, timer, gameMode>> ]_vars

\* C28: points are added at most once for a target on display.
C28_TargetRewardedOnce == rewards <= 1

\* C23: once init() of model.js has returned, isLoaded is true, and a
\* predict that finds isLoaded set runs the model: it does not return the
\* placeholder.
C23_PredictionsAllowedAfterInit ==
    (ModelJs /\ initPc = "done") =>
        /\ isLoaded
        /\ (PredictReturned /\ seen.isLoaded) =>
              (calls = 1 /\ result # Placeholder)

\* C29: once NeuralNetwork.init() has returned, waitForModel's polling
\* resolves and App.init reaches the ready state.
C29_EventuallyReady == (initPc = "done") ~> (appPc = "ready")

====
